---- MODULE Spec2Model ----
(***************************************************************************)
(* A model of kabanero-events' event-routing path:                         *)
(*   - the credential resolver   utils.GetURLAPIToken  (src/unnamed/part_000)*)
(*   - the NATS message provider natsProvider  (src/pkg/messages/nats_provider.go)*)
(*   - the webhook gateway       listenerHandler       (src/listener.go)   *)
(* Strings are sequences of one-character strings, byte strings are        *)
(* sequences of byte values.                                               *)
(***************************************************************************)
EXTENDS Integers, Sequences, FiniteSets, TLC

VARIABLES
    \* ---- credential resolver ----
    store,        \* the secrets of the namespace, in the order List returns them
    result,       \* what the latest GetURLAPIToken call returned
    queryURL,     \* the repoURL of the latest GetURLAPIToken call
    fresh,        \* history: the store has not changed since that call returned
    answerChanged, \* history: that call and the one before it asked for the same
                  \* URL, both listings succeeded, and the answers differ
    \* ---- NATS provider ----
    subs,         \* every subscription handle the connection created, by handle id
    subscription, \* natsProvider.subscription: node name -> handle id
    published,    \* history: the Send calls made, in order
    sendErr,      \* what the latest Send call returned
    connCalls,    \* history: the calls that Send made on the connection, in order
    recvResult,   \* what the latest Receive call returned
    lpc,          \* position of the ListenAndServe task
    lnode,        \* the node ListenAndServe was called with
    lsub,         \* the handle ChanSubscribe returned to it (0: nil)
    lmsg,         \* the message the handler is working on
    msgChan,      \* the channel ListenAndServe made: "none", "open" or "closed"
    subCalls,     \* history: the calls ListenAndServe made on its handle, in order
    handled,      \* history: the payloads the handler was called with, in order
    arrived,      \* history: the payloads the broker sent to the listener's subscription
    \* ---- webhook gateway ----
    eventProviders, \* the loaded EventDefinition (read-only after start)
    reqs,           \* per request: the handler's position and locals
    sentLog,        \* history: the provider.Send calls of the gateway, in order
    \* ---- name conversions and webhook body readers ----
    conversion,     \* the latest ToDomainName / ToLabelName / ToLabel call
    repoInfo,       \* the latest getRepositoryInfo call
    \* ---- concurrent callers of one natsProvider ----
    tasks,          \* per task: the call it makes and its position in it
    fatal           \* the runtime found a concurrent map access and ended the process

credVars == <<store, result, queryURL, fresh, answerChanged>>
natsVars == <<subs, subscription, published, sendErr, connCalls, recvResult, lpc, lnode,
              lsub, lmsg, msgChan, subCalls, handled, arrived>>
gwVars   == <<eventProviders, reqs, sentLog>>
nameVars == <<conversion>>
repoVars == <<repoInfo>>
taskVars == <<tasks, fatal>>
vars     == <<credVars, natsVars, gwVars, nameVars, repoVars, taskVars>>

(***************************************************************************)
(* Strings                                                                 *)
(***************************************************************************)
HasPrefix(s, prefix) ==
    /\ Len(s) >= Len(prefix)
    /\ SubSeq(s, 1, Len(prefix)) = prefix

(***************************************************************************)
(* encoding/base64 StdEncoding.DecodeString, as GetURLAPIToken uses it.    *)
(***************************************************************************)
encodeStd ==
    <<"A","B","C","D","E","F","G","H","I","J","K","L","M","N","O","P",
      "Q","R","S","T","U","V","W","X","Y","Z","a","b","c","d","e","f",
      "g","h","i","j","k","l","m","n","o","p","q","r","s","t","u","v",
      "w","x","y","z","0","1","2","3","4","5","6","7","8","9","+","/">>

StdPadding == "="

IsB64Char(c) == \E i \in 1..Len(encodeStd) : encodeStd[i] = c

B64Value(c) == (CHOOSE i \in 1..Len(encodeStd) : encodeStd[i] = c) - 1

\* A padded input is well formed when it is whole quanta of four characters,
\* each from the alphabet, with padding only as the last one or two characters
\* of the last quantum.
B64WellFormed(s) ==
    /\ Len(s) % 4 = 0
    /\ \A i \in 1..Len(s) :
          \/ IsB64Char(s[i])
          \/ /\ s[i] = StdPadding
             /\ i >= Len(s) - 1
             /\ i = Len(s) - 1 => s[Len(s)] = StdPadding

\* One quantum: four 6-bit values make up to three bytes.
DecodeQuantum(q) ==
    LET v1 == B64Value(q[1])
        v2 == B64Value(q[2])
        v3 == IF q[3] = StdPadding THEN 0 ELSE B64Value(q[3])
        v4 == IF q[4] = StdPadding THEN 0 ELSE B64Value(q[4])
        b1 == v1 * 4 + (v2 \div 16)
        b2 == (v2 % 16) * 16 + (v3 \div 4)
        b3 == (v3 % 4) * 64 + v4
    IN  IF q[3] = StdPadding THEN <<b1>>
        ELSE IF q[4] = StdPadding THEN <<b1, b2>>
        ELSE <<b1, b2, b3>>

RECURSIVE DecodeQuanta(_)
DecodeQuanta(s) ==
    IF Len(s) = 0 THEN <<>>
    ELSE DecodeQuantum(SubSeq(s, 1, 4)) \o DecodeQuanta(SubSeq(s, 5, Len(s)))

\* [ok |-> FALSE] is the CorruptInputError.
DecodeString(s) ==
    IF B64WellFormed(s)
    THEN [ok |-> TRUE, bytes |-> DecodeQuanta(s)]
    ELSE [ok |-> FALSE, bytes |-> <<>>]

(***************************************************************************)
(* Credential resolver: GetURLAPIToken                                     *)
(***************************************************************************)
MaxSecrets == 2     \* secrets in the namespace at one time

\* A field that is missing, or present with another type than the code asserts
\* (no string: it is not a sequence of characters).
Absent == <<"<absent>">>

\* Annotation values (URL prefixes) and the repository URLs asked for.
UrlO   == <<"o">>
UrlOR  == <<"o", "r">>
UrlX   == <<"x">>
RepoURLs == { <<"o">>, <<"o", "r", "s">>, <<"x", "y">> }

\* base64 texts of the data fields: "a", "b", "ab", and two corrupt ones.
EncA   == <<"Y", "Q", "=", "=">>
EncB   == <<"Y", "g", "=", "=">>
EncAB  == <<"Y", "W", "I", "=">>
EncBadLen  == <<"Y", "Q", "=">>
EncBadChar == <<"Y", "*", "=", "=">>

\* The shape of one item of the UnstructuredList: what the loop reads of it.
\* (Every object the API server lists carries metadata and a name.)
\*   kabanero, tekton: the string values of the annotations whose key starts with
\*   "kabanero.io/git-" and "tekton.dev/git-".
Shape(ann, kab, tek, data, user, pass) ==
    [hasMetadata |-> TRUE, hasAnnotations |-> ann, kabanero |-> kab, tekton |-> tek,
     hasName |-> TRUE, hasData |-> data, username |-> user, password |-> pass]

\* The secrets that may exist in the namespace, each under its own name (its
\* index here).
SecretPool ==
    << Shape(TRUE,  {UrlO},       {},      TRUE,  EncA,       EncB),
       Shape(TRUE,  {UrlOR},      {},      TRUE,  EncAB,      EncA),
       Shape(TRUE,  {UrlX},       {UrlO},  TRUE,  EncB,       EncAB),
       Shape(TRUE,  {},           {UrlOR, UrlX}, TRUE, EncB,  EncB),
       Shape(TRUE,  {UrlO},       {},      TRUE,  EncA,       Absent),
       Shape(TRUE,  {UrlO},       {},      FALSE, Absent,     Absent),
       Shape(TRUE,  {UrlO},       {},      TRUE,  EncBadLen,  EncB),
       Shape(TRUE,  {},           {UrlOR}, TRUE,  EncA,       EncBadChar),
       Shape(FALSE, {},           {},      TRUE,  EncA,       EncB) >>

Secret(n) == [name |-> n] @@ SecretPool[n]

NoResult == [username |-> <<>>, token |-> <<>>, name |-> 0, err |-> "none"]

\* return "", "", "", err
Failure(e) == [username |-> <<>>, token |-> <<>>, name |-> 0, err |-> e]

\* Mutant: the arguments of strings.HasPrefix swapped.
matchPrefixSwapped(str, arrStr) ==
    \E val \in arrStr : HasPrefix(val, str)

\* matchPrefix: true if any element of arrStr is a prefix of str.  (The matched
\* element is only logged by the caller.)
matchPrefix(str, arrStr) ==
    \E val \in arrStr : HasPrefix(str, val)

\* urlMatched after the kabanero list and the fallback to the tekton list.
urlMatched(obj, repoURL) ==
    IF matchPrefix(repoURL, obj.kabanero)
    THEN TRUE
    ELSE matchPrefix(repoURL, obj.tekton)

\* The `continue`s of the loop body: the item is passed over.
Skipped(obj, repoURL) ==
    \/ ~obj.hasMetadata
    \/ ~obj.hasAnnotations
    \/ ~urlMatched(obj, repoURL)
    \/ ~obj.hasName
    \/ ~obj.hasData
    \/ obj.username = Absent
    \/ obj.password = Absent

\* Mutant: the decoded password returned as the username and the other way round.
DecodeItemSwapped(obj) ==
    LET decodedUserName == DecodeString(obj.username)
        decodedToken    == DecodeString(obj.password)
    IN  IF ~decodedUserName.ok \/ ~decodedToken.ok THEN Failure("DecodeError")
        ELSE [username |-> decodedToken.bytes, token |-> decodedUserName.bytes,
              name |-> obj.name, err |-> "nil"]

\* The end of the loop body, reached for an item that is not passed over.
DecodeItem(obj) ==
    LET decodedUserName == DecodeString(obj.username)
        decodedToken    == DecodeString(obj.password)
    IN  IF ~decodedUserName.ok THEN Failure("DecodeError")
        ELSE IF ~decodedToken.ok THEN Failure("DecodeError")
        ELSE [username |-> decodedUserName.bytes, token |-> decodedToken.bytes,
              name |-> obj.name, err |-> "nil"]

\* Mutant: the items are scanned from the last to the first.
RECURSIVE ScanItemsBackwards(_, _, _)
ScanItemsBackwards(items, i, repoURL) ==
    LET k == Len(items) + 1 - i
    IN  IF i > Len(items) THEN Failure("NotFound")
        ELSE IF Skipped(items[k], repoURL) THEN ScanItemsBackwards(items, i + 1, repoURL)
        ELSE DecodeItem(items[k])

\* Mutant: an item whose data does not decode is passed over like a malformed one.
RECURSIVE ScanItemsSkipCorrupt(_, _, _)
ScanItemsSkipCorrupt(items, i, repoURL) ==
    IF i > Len(items) THEN Failure("NotFound")
    ELSE IF Skipped(items[i], repoURL) \/ DecodeItem(items[i]).err # "nil"
         THEN ScanItemsSkipCorrupt(items, i + 1, repoURL)
    ELSE DecodeItem(items[i])

\* for _, unstructuredObj := range unstructuredList.Items { ... }
RECURSIVE ScanItems(_, _, _)
ScanItems(items, i, repoURL) ==
    IF i > Len(items) THEN Failure("NotFound")
    ELSE IF Skipped(items[i], repoURL) THEN ScanItems(items, i + 1, repoURL)
    ELSE DecodeItem(items[i])

\* intf.List(metav1.ListOptions{}): the current content of the backing store.
ListSecrets == store

\* Mutant: a successful lookup is remembered and answered again for the same URL.
GetURLAPITokenCached(listOK, repoURL) ==
    IF result.err = "nil" /\ queryURL = repoURL THEN result
    ELSE IF ~listOK THEN Failure("BackendError")
    ELSE ScanItems(store, 1, repoURL)

GetURLAPIToken(listOK, repoURL) ==
    IF ~listOK THEN Failure("BackendError")
    ELSE ScanItems(ListSecrets, 1, repoURL)

\* One call of GetURLAPIToken.
Resolve ==
    \E repoURL \in RepoURLs, listOK \in BOOLEAN :
        /\ result' = GetURLAPIToken(listOK, repoURL)
        /\ queryURL' = repoURL
        /\ fresh' = TRUE
        /\ answerChanged' = /\ queryURL = repoURL
                            /\ result.err \notin {"none", "BackendError"}
                            /\ result'.err # "BackendError"
                            /\ result' # result
        /\ UNCHANGED store
        /\ UNCHANGED <<natsVars, gwVars, nameVars, repoVars, taskVars>>

\* The backing store changes under the resolver: a secret is created ...
UsedNames == { store[i].name : i \in 1..Len(store) }

CreateSecret ==
    /\ Len(store) < MaxSecrets
    /\ \E n \in (1..Len(SecretPool)) \ UsedNames :
          store' = Append(store, Secret(n))
    /\ fresh' = FALSE
    /\ UNCHANGED <<result, queryURL, answerChanged>>
    /\ UNCHANGED <<natsVars, gwVars, nameVars, repoVars, taskVars>>

\* ... or deleted.
DeleteSecret ==
    /\ \E i \in 1..Len(store) :
          store' = SubSeq(store, 1, i - 1) \o SubSeq(store, i + 1, Len(store))
    /\ fresh' = FALSE
    /\ UNCHANGED <<result, queryURL, answerChanged>>
    /\ UNCHANGED <<natsVars, gwVars, nameVars, repoVars, taskVars>>

CredNext ==
    \/ Resolve
    \/ CreateSecret
    \/ DeleteSecret


(***************************************************************************)
(* Properties of the credential resolver.  They are stated with an encoder *)
(* and a pattern set written independently of the scan above.              *)
(***************************************************************************)
\* base64 StdEncoding.EncodeToString of a byte string.
EncodeGroup(g) ==
    LET b1 == g[1]
        b2 == IF Len(g) >= 2 THEN g[2] ELSE 0
        b3 == IF Len(g) >= 3 THEN g[3] ELSE 0
        c1 == encodeStd[(b1 \div 4) + 1]
        c2 == encodeStd[((b1 % 4) * 16 + (b2 \div 16)) + 1]
        c3 == encodeStd[((b2 % 16) * 4 + (b3 \div 64)) + 1]
        c4 == encodeStd[(b3 % 64) + 1]
    IN  IF Len(g) = 1 THEN <<c1, c2, StdPadding, StdPadding>>
        ELSE IF Len(g) = 2 THEN <<c1, c2, c3, StdPadding>>
        ELSE <<c1, c2, c3, c4>>

RECURSIVE EncodeToString(_)
EncodeToString(b) ==
    IF Len(b) = 0 THEN <<>>
    ELSE IF Len(b) <= 3 THEN EncodeGroup(b)
    ELSE EncodeGroup(SubSeq(b, 1, 3)) \o EncodeToString(SubSeq(b, 4, Len(b)))

\* The plain texts whose encodings the secrets of the model carry: "a", "b", "ab".
PlainTexts == { <<97>>, <<98>>, <<97, 98>> }

\* The texts of the model that are no base64 text: a wrong length, a foreign character.
CorruptTexts == { EncBadLen, EncBadChar }

\* The URL-pattern set of a record: the values of both annotation families.
PatternSet(obj) ==
    IF obj.hasMetadata /\ obj.hasAnnotations THEN obj.kabanero \cup obj.tekton ELSE {}

Matches(obj, url) == \E p \in PatternSet(obj) : HasPrefix(url, p)

\* The record carries a name and both data fields as strings.
HasFields(obj) ==
    obj.hasName /\ obj.hasData /\ obj.username # Absent /\ obj.password # Absent

MatchingAt(url)  == { i \in 1..Len(store) : Matches(store[i], url) }
EligibleAt(url)  == { i \in MatchingAt(url) : HasFields(store[i]) }
Lowest(S)        == CHOOSE i \in S : \A j \in S : i <= j

\* The latest call listed the store as it is now, and the listing succeeded.
Answered == fresh /\ result.err # "BackendError"

\* C3 (as stated): a successful lookup returns the first listed record whose
\* pattern set contains a prefix of the query URL, never a later one.
C3_FirstMatchingReturned ==
    (Answered /\ result.err = "nil") =>
        result.name = store[Lowest(MatchingAt(queryURL))].name

\* C3 (amended): a successful lookup returns the first listed record that matches
\* and carries a string name, username and password; matching records without
\* those fields are passed over.
C3_FirstEligibleReturned ==
    (Answered /\ result.err = "nil") =>
        /\ EligibleAt(queryURL) # {}
        /\ result.name = store[Lowest(EligibleAt(queryURL))].name

C3_Witness ==
    /\ Answered /\ result.err = "nil"
    /\ Cardinality(MatchingAt(queryURL)) = 2
    /\ Lowest(EligibleAt(queryURL)) = 2
    /\ result.name = store[2].name

\* C4: on success the name is that of a listed record with a pattern that is a
\* prefix of the query URL, and the username and token are the decoded username
\* and password of that same record (their encodings are the stored texts).
C4_CredentialsOfMatchingRecord ==
    (Answered /\ result.err = "nil") =>
        \E i \in 1..Len(store) :
            /\ store[i].name = result.name
            /\ \E p \in store[i].kabanero \cup store[i].tekton : HasPrefix(queryURL, p)
            /\ EncodeToString(result.username) = store[i].username
            /\ EncodeToString(result.token) = store[i].password

C4_Witness ==
    /\ Answered /\ result.err = "nil"
    /\ Len(store) = 2
    /\ ~Matches(store[1], queryURL)
    /\ HasFields(store[1])
    /\ result.name = store[2].name
    /\ result.username = <<97, 98>>

\* C5: when the record the scan stops at (the first matching one with its
\* fields) carries a username or password that is no base64 text, the lookup
\* fails with the decode error and empty results, whatever follows in the list.
C5_DecodeErrorIsFatal ==
    (Answered /\ EligibleAt(queryURL) # {}) =>
        LET obj == store[Lowest(EligibleAt(queryURL))]
        IN  (obj.username \in CorruptTexts \/ obj.password \in CorruptTexts) =>
                result = Failure("DecodeError")

C5_Witness ==
    /\ Answered /\ result.err = "DecodeError"
    /\ Cardinality(EligibleAt(queryURL)) = 2
    /\ store[2].username \notin CorruptTexts
    /\ store[2].password \notin CorruptTexts

\* C6: when no listed record has a pattern that is a prefix of the query URL the
\* lookup fails with the not-found error and empty username, token and name.
C6_NotFound ==
    (Answered /\ MatchingAt(queryURL) = {}) => result = Failure("NotFound")

C6_Witness ==
    /\ Answered /\ result.err = "NotFound"
    /\ Len(store) = 2
    /\ MatchingAt(queryURL) = {}
    /\ \A i \in 1..2 : PatternSet(store[i]) # {}

\* What a lookup of url has to return on the store as it is now.
Expected(url) ==
    IF EligibleAt(url) = {} THEN Failure("NotFound")
    ELSE LET obj == store[Lowest(EligibleAt(url))]
         IN  IF /\ \E u \in PlainTexts : EncodeToString(u) = obj.username
                /\ \E t \in PlainTexts : EncodeToString(t) = obj.password
             THEN [username |-> CHOOSE u \in PlainTexts : EncodeToString(u) = obj.username,
                   token    |-> CHOOSE t \in PlainTexts : EncodeToString(t) = obj.password,
                   name     |-> obj.name,
                   err      |-> "nil"]
             ELSE Failure("DecodeError")

\* C7: no state is kept between calls.  Every step that is a call (it leaves
\* the store alone and ends with the store as listed) returns what the store
\* holds at that moment, whatever earlier calls returned and however the store
\* changed in between.
C7_NoCaching ==
    [][(fresh' /\ store' = store /\ result'.err # "BackendError")
          => result' = Expected(queryURL')]_vars

\* A call answered differently from the call before it for the same URL, the
\* store having changed in between.
C7_Witness ==
    /\ Answered /\ answerChanged
    /\ result.err = "NotFound"
    /\ Len(store) = 1

(***************************************************************************)
(* NATS provider: natsProvider over one nats.Conn.                         *)
(*                                                                         *)
(* The broker and the client library are the environment.  Core NATS keeps *)
(* no messages: a published message is routed to the subscriptions that    *)
(* exist on its subject when it reaches the broker, and to no later one.   *)
(* A synchronous subscription (SubscribeSync) queues its messages until    *)
(* NextMsg takes them.  A channel subscription (ChanSubscribe) gets each   *)
(* message by a non-blocking send on the caller's channel: the client      *)
(* library never blocks its read loop, and a message for which no receiver *)
(* is ready on an unbuffered channel is dropped (slow consumer).           *)
(***************************************************************************)
MaxSubs  == 2     \* subscription handles created on the connection
MaxSends == 2     \* Send calls

Payloads == {"a", "b"}

\* The event nodes of the configuration.
Nodes ==
    { [name |-> "n1", topic |-> "t1"],
      [name |-> "n2", topic |-> "t2"] }

NodeNames == { n.name : n \in Nodes }

\* The nil *nats.Subscription, and a map lookup that found no key.
NilSub == 0

\* What Receive returned: payload and err; sub, sendNo and nextMsgOnNil are
\* history (the handle it read, the Send the message came from, and whether
\* NextMsg was called on the nil handle).
NoRecv == [sub |-> NilSub, payload |-> "", err |-> "none", sendNo |-> 0,
           nextMsgOnNil |-> FALSE]

\* A handle as SubscribeSync / ChanSubscribe return it.  since, last: history
\* (the number of Sends made before it was created, and the Send whose message
\* NextMsg took last).
NewSub(topic, kind) ==
    [topic |-> topic, kind |-> kind, pending |-> <<>>, since |-> Len(published),
     last |-> 0]

\* Mutant: the error of SubscribeSync is not looked at, and the nil handle it
\* came with is stored.
StoreHandleWhateverErr(ok, name, sub) ==
    [subscription EXCEPT ![name] = IF ok THEN sub ELSE NilSub]

\* The subscription map after SubscribeSync returned: on an error Subscribe
\* returns before the map is written; otherwise the handle is stored under the
\* node's name, over the one that was there.
StoreHandle(ok, name, sub) ==
    IF ok THEN [subscription EXCEPT ![name] = sub] ELSE subscription

\* Subscribe(node): SubscribeSync on the node's topic; the handle is stored under
\* the node's name, a failure leaves the map alone.
Subscribe ==
    \E node \in Nodes, ok \in BOOLEAN :
        /\ Len(subs) < MaxSubs
        /\ subs' = IF ok THEN Append(subs, NewSub(node.topic, "sync")) ELSE subs
        /\ subscription' = StoreHandle(ok, node.name, Len(subs) + 1)
        /\ UNCHANGED <<published, sendErr, connCalls, recvResult, lpc, lnode, lsub, lmsg,
                       msgChan, subCalls, handled, arrived>>
        /\ UNCHANGED <<credVars, gwVars, nameVars, repoVars, taskVars>>

\* The broker routes one message to the synchronous subscriptions on its subject.
\* (sendNo is history: the Send the message came from.)
RouteSync(topic, payload) ==
    [i \in 1..Len(subs) |->
        IF subs[i].kind = "sync" /\ subs[i].topic = topic
        THEN [subs[i] EXCEPT !.pending =
                 Append(@, [payload |-> payload, sendNo |-> Len(published) + 1])]
        ELSE subs[i]]

\* The listener's channel subscription is on this subject.
ListenerOn(topic) ==
    lsub # NilSub /\ subs[lsub].topic = topic /\ msgChan = "open"

\* Mutant: the outcome of the flush is not looked at.
SendReturnsIgnoringFlush(pubOK, flushOK) ==
    IF ~pubOK THEN "PublishError" ELSE "nil"

\* What Send returns: the error of Publish, else the error of Flush, else nil.
SendReturns(pubOK, flushOK) ==
    IF ~pubOK THEN "PublishError"
    ELSE IF ~flushOK THEN "FlushError"
    ELSE "nil"

\* The calls Send makes on the connection: Publish on the node's topic, and
\* Flush when Publish succeeded.
SendCalls(topic, pubOK, flushOK) ==
    IF ~pubOK THEN << [op |-> "Publish", topic |-> topic, ok |-> FALSE] >>
    ELSE << [op |-> "Publish", topic |-> topic, ok |-> TRUE],
            [op |-> "Flush", topic |-> "", ok |-> flushOK] >>

\* Send(node, payload, header): conn.Publish, then conn.Flush.
\*   pubOK, flushOK: the two calls' outcomes;  reached: the message got to the
\*   broker (always when the flush round trip succeeded, never when Publish failed).
Send ==
    \E node \in Nodes, payload \in Payloads, pubOK \in BOOLEAN, flushOK \in BOOLEAN,
       reached \in BOOLEAN :
        /\ Len(published) < MaxSends
        /\ ~pubOK => (~reached /\ ~flushOK)
        /\ (pubOK /\ flushOK) => reached
        /\ published' = Append(published,
                               [topic |-> node.topic, payload |-> payload,
                                reached |-> reached])
        /\ sendErr' = SendReturns(pubOK, flushOK)
        /\ connCalls' = SendCalls(node.topic, pubOK, flushOK)
        /\ IF reached
           THEN /\ subs' = RouteSync(node.topic, payload)
                /\ IF ListenerOn(node.topic)
                   THEN /\ arrived' = Append(arrived, payload)
                        /\ IF lpc = "waiting"
                           \* msg := <-msgChan ; receiver(msg.Data) starts
                           THEN /\ lpc' = "handling"
                                /\ lmsg' = payload
                                /\ handled' = Append(handled, payload)
                           \* no receiver is ready on the unbuffered channel
                           ELSE UNCHANGED <<lpc, lmsg, handled>>
                   ELSE UNCHANGED <<arrived, lpc, lmsg, handled>>
           ELSE UNCHANGED <<subs, arrived, lpc, lmsg, handled>>
        /\ UNCHANGED <<subscription, recvResult, lnode, lsub, msgChan, subCalls>>
        /\ UNCHANGED <<credVars, gwVars, nameVars, repoVars, taskVars>>

\* Mutant: the newest pending message is taken instead of the oldest.
NextMsgNewest(pending) == pending[Len(pending)]

\* sub.NextMsg on a handle with messages pending: the oldest one.
NextMsg(pending) == Head(pending)

\* Receive(node): the map lookup, then sub.NextMsg(timeout) whatever the lookup
\* found.  On the nil handle NextMsg fails at once with the library's
\* ErrBadSubscription; on a handle with nothing pending it times out.
Receive ==
    \E node \in Nodes :
        LET sub == subscription[node.name]
            ok  == sub # NilSub
        IN  /\ IF ~ok
               THEN /\ recvResult' = [NoRecv EXCEPT !.err = "ErrBadSubscription",
                                                    !.nextMsgOnNil = TRUE]
                    /\ UNCHANGED subs
               ELSE IF subs[sub].pending = <<>>
               THEN /\ recvResult' = [NoRecv EXCEPT !.sub = sub, !.err = "ErrTimeout"]
                    /\ UNCHANGED subs
               ELSE LET msg == NextMsg(subs[sub].pending)
                    IN  /\ recvResult' = [sub |-> sub, payload |-> msg.payload,
                                          err |-> "nil", sendNo |-> msg.sendNo,
                                          nextMsgOnNil |-> FALSE]
                        /\ subs' = [subs EXCEPT ![sub].pending = Tail(@),
                                                ![sub].last = msg.sendNo]
            /\ UNCHANGED <<subscription, published, sendErr, connCalls, lpc, lnode, lsub,
                           lmsg, msgChan, subCalls, handled, arrived>>
            /\ UNCHANGED <<credVars, gwVars, nameVars, repoVars, taskVars>>

\* Where ListenAndServe goes after ChanSubscribe: to the receive of its loop,
\* whether the call succeeded or failed.
AfterChanSubscribe(ok) == "waiting"

\* ListenAndServe(node, receiver) up to its loop: ChanSubscribe with a fresh
\* unbuffered channel.  A failure is logged and the loop is entered all the same,
\* with the nil handle.
ListenAndServe ==
    \E node \in Nodes, ok \in BOOLEAN :
        /\ lpc = "idle"
        /\ Len(subs) < MaxSubs
        /\ lnode' = node.name
        /\ IF ok
           THEN /\ subs' = Append(subs, NewSub(node.topic, "chan"))
                /\ lsub' = Len(subs) + 1
           ELSE UNCHANGED <<subs, lsub>>
        /\ msgChan' = "open"
        /\ lpc' = AfterChanSubscribe(ok)
        /\ UNCHANGED <<subscription, published, sendErr, connCalls, recvResult, lmsg,
                       subCalls, handled, arrived>>
        /\ UNCHANGED <<credVars, gwVars, nameVars, repoVars, taskVars>>

\* receiver(msg.Data) returns: the loop goes back to receive from msgChan.
HandlerReturns ==
    /\ lpc = "handling"
    /\ lpc' = "waiting"
    /\ lmsg' = ""
    /\ UNCHANGED <<subs, subscription, published, sendErr, connCalls, recvResult, lnode,
                   lsub, msgChan, subCalls, handled, arrived>>
    /\ UNCHANGED <<credVars, gwVars, nameVars, repoVars, taskVars>>

\* The channel is closed.  ListenAndServe never closes it; the only other holder
\* is the connection the channel was registered with by a successful
\* ChanSubscribe, and the step is that holder's.  A closed channel takes no
\* further message.
ChanClosed ==
    /\ msgChan = "open"
    /\ lsub # NilSub
    /\ msgChan' = "closed"
    /\ UNCHANGED <<subs, subscription, published, sendErr, connCalls, recvResult, lpc,
                   lnode, lsub, lmsg, subCalls, handled, arrived>>
    /\ UNCHANGED <<credVars, gwVars, nameVars, repoVars, taskVars>>

\* Mutant: the loop may end while the channel is open.
RangeEndsAnytime(ch) == TRUE

\* for msg := range msgChan ends when the receive finds the channel closed.
RangeEnds(ch) == ch = "closed"

\* The loop ends: sub.Unsubscribe(), then sub.Drain(), and ListenAndServe returns.
LoopEnds ==
    /\ lpc = "waiting"
    /\ RangeEnds(msgChan)
    /\ subCalls' = << [op |-> "Unsubscribe", sub |-> lsub],
                      [op |-> "Drain", sub |-> lsub] >>
    /\ lpc' = "returned"
    /\ UNCHANGED <<subs, subscription, published, sendErr, connCalls, recvResult, lnode,
                   lsub, lmsg, msgChan, handled, arrived>>
    /\ UNCHANGED <<credVars, gwVars, nameVars, repoVars, taskVars>>

\* Polling consumers: Subscribe, Send and Receive on one provider.
NatsNext ==
    \/ Subscribe
    \/ Send
    \/ Receive

\* The always-on consumer: one ListenAndServe task, and Sends to its subject.
ListenNext ==
    \/ ListenAndServe
    \/ Send
    \/ HandlerReturns
    \/ ChanClosed
    \/ LoopEnds

(***************************************************************************)
(* Concurrent callers: Subscribe and Receive called from several tasks on  *)
(* one natsProvider.  The provider has no lock, so the steps of the calls  *)
(* interleave freely; the access to the subscription map is a step that    *)
(* takes time (it begins and it ends).  An access that overlaps a write is *)
(* a data race on a Go map: the runtime may end the process with "fatal    *)
(* error: concurrent map read and map write" / "concurrent map writes",    *)
(* or let the accesses finish, a racing write landing or getting lost and  *)
(* a racing read finding the key or missing it.                            *)
(***************************************************************************)
MaxTasks == 2     \* tasks calling the provider

Tasks == 1..MaxTasks

IdleTask == [op |-> "none", pc |-> "idle", node |-> "none", sub |-> NilSub,
             raced |-> FALSE, err |-> "none"]

TopicOf(name) == (CHOOSE n \in Nodes : n.name = name).topic

\* The tasks whose map access under way conflicts with an access of the given
\* kind by task t: every write, and for a write every read too.
Conflicting(t, kind) ==
    { u \in Tasks \ {t} :
        \/ tasks[u].pc = "mapWrite"
        \/ kind = "mapWrite" /\ tasks[u].pc = "mapRead" }

\* Task t, so far at self, begins its map access; raced marks the accesses that
\* overlap.
BeginAccess(t, kind, self) ==
    [u \in Tasks |->
        IF u = t
        THEN [self EXCEPT !.pc = kind, !.raced = Conflicting(t, kind) # {}]
        ELSE IF u \in Conflicting(t, kind)
        THEN [tasks[u] EXCEPT !.raced = TRUE]
        ELSE tasks[u]]

\* A task calls Subscribe(node): SubscribeSync is under way.
CallSubscribe ==
    \E t \in Tasks, node \in Nodes :
        /\ ~fatal
        /\ tasks[t].pc = "idle"
        /\ tasks' = [tasks EXCEPT ![t] = [IdleTask EXCEPT !.op = "Subscribe",
                                                          !.pc = "SubscribeSync",
                                                          !.node = node.name]]
        /\ UNCHANGED fatal
        /\ UNCHANGED <<credVars, natsVars, gwVars, nameVars, repoVars>>

\* SubscribeSync returns: an error is returned to the caller; otherwise the
\* write provider.subscription[node.Name] = sub begins.
SubscribeSyncReturns ==
    \E t \in Tasks, ok \in BOOLEAN :
        /\ ~fatal
        /\ tasks[t].pc = "SubscribeSync"
        /\ IF ok
           THEN /\ Len(subs) < MaxSubs
                /\ subs' = Append(subs, NewSub(TopicOf(tasks[t].node), "sync"))
                /\ tasks' = BeginAccess(t, "mapWrite",
                                        [tasks[t] EXCEPT !.sub = Len(subs) + 1])
           ELSE /\ tasks' = [tasks EXCEPT ![t].pc = "done", ![t].err = "SubscribeError"]
                /\ UNCHANGED subs
        /\ UNCHANGED fatal
        /\ UNCHANGED <<subscription, published, sendErr, connCalls, recvResult, lpc, lnode,
                       lsub, lmsg, msgChan, subCalls, handled, arrived>>
        /\ UNCHANGED <<credVars, gwVars, nameVars, repoVars>>

\* The map write ends and Subscribe returns nil.
MapWriteEnds ==
    \E t \in Tasks, outcome \in {"written", "lost", "fatal"} :
        /\ ~fatal
        /\ tasks[t].pc = "mapWrite"
        /\ ~tasks[t].raced => outcome = "written"
        /\ subscription' = IF outcome = "written"
                           THEN [subscription EXCEPT ![tasks[t].node] = tasks[t].sub]
                           ELSE subscription
        /\ fatal' = (outcome = "fatal")
        /\ tasks' = [tasks EXCEPT ![t].pc = "done", ![t].err = "nil"]
        /\ UNCHANGED <<subs, published, sendErr, connCalls, recvResult, lpc, lnode, lsub,
                       lmsg, msgChan, subCalls, handled, arrived>>
        /\ UNCHANGED <<credVars, gwVars, nameVars, repoVars>>

\* A task calls Receive(node): the read sub, ok := provider.subscription[node.Name]
\* begins.
CallReceive ==
    \E t \in Tasks, node \in Nodes :
        /\ ~fatal
        /\ tasks[t].pc = "idle"
        /\ tasks' = BeginAccess(t, "mapRead",
                                [IdleTask EXCEPT !.op = "Receive", !.node = node.name])
        /\ UNCHANGED fatal
        /\ UNCHANGED <<credVars, natsVars, gwVars, nameVars, repoVars>>

\* The map read ends with the handle it found, and sub.NextMsg is called.
MapReadEnds ==
    \E t \in Tasks, outcome \in {"found", "missed", "fatal"} :
        /\ ~fatal
        /\ tasks[t].pc = "mapRead"
        /\ ~tasks[t].raced => outcome = "found"
        /\ fatal' = (outcome = "fatal")
        /\ tasks' = [tasks EXCEPT ![t].pc = "NextMsg",
                                  ![t].sub = IF outcome = "found"
                                             THEN subscription[tasks[t].node]
                                             ELSE NilSub]
        /\ UNCHANGED <<credVars, natsVars, gwVars, nameVars, repoVars>>

\* sub.NextMsg(timeout) returns, and Receive with it.
NextMsgReturns ==
    \E t \in Tasks :
        LET sub == tasks[t].sub
        IN  /\ ~fatal
            /\ tasks[t].pc = "NextMsg"
            /\ IF sub = NilSub
               THEN /\ recvResult' = [NoRecv EXCEPT !.err = "ErrBadSubscription",
                                                    !.nextMsgOnNil = TRUE]
                    /\ UNCHANGED subs
               ELSE IF subs[sub].pending = <<>>
               THEN /\ recvResult' = [NoRecv EXCEPT !.sub = sub, !.err = "ErrTimeout"]
                    /\ UNCHANGED subs
               ELSE LET msg == NextMsg(subs[sub].pending)
                    IN  /\ recvResult' = [sub |-> sub, payload |-> msg.payload,
                                          err |-> "nil", sendNo |-> msg.sendNo,
                                          nextMsgOnNil |-> FALSE]
                        /\ subs' = [subs EXCEPT ![sub].pending = Tail(@),
                                                ![sub].last = msg.sendNo]
            /\ tasks' = [tasks EXCEPT ![t].pc = "done", ![t].err = recvResult'.err]
            /\ UNCHANGED fatal
            /\ UNCHANGED <<subscription, published, sendErr, connCalls, lpc, lnode, lsub,
                           lmsg, msgChan, subCalls, handled, arrived>>
            /\ UNCHANGED <<credVars, gwVars, nameVars, repoVars>>

\* A call returned: the task is free for its next call.
TaskReturns ==
    \E t \in Tasks :
        /\ ~fatal
        /\ tasks[t].pc = "done"
        /\ tasks' = [tasks EXCEPT ![t] = IdleTask]
        /\ UNCHANGED fatal
        /\ UNCHANGED <<credVars, natsVars, gwVars, nameVars, repoVars>>

TaskNext ==
    \/ CallSubscribe
    \/ SubscribeSyncReturns
    \/ MapWriteEnds
    \/ CallReceive
    \/ MapReadEnds
    \/ NextMsgReturns
    \/ TaskReturns

(***************************************************************************)
(* Properties of the NATS provider.                                        *)
(***************************************************************************)
\* C8 (as stated): a successful Send, then Subscribe on the same topic, then
\* Receive on that source: the Receive returns the bytes of the Send.
C8_SendSubscribeReceive ==
    LET s == recvResult.sub
    IN  ( /\ s # NilSub
          /\ Len(published) = 1
          /\ sendErr = "nil"
          /\ published[1].topic = subs[s].topic
          /\ subs[s].since = 1 )
        => (recvResult.err = "nil" /\ recvResult.payload = published[1].payload)

\* The Sends a subscription has to see: on its topic, made after it was
\* created, and arrived at the broker.
Due(s) ==
    { k \in (subs[s].since + 1)..Len(published) :
        published[k].topic = subs[s].topic /\ published[k].reached }

\* C8 (amended): Subscribe, then Send on the same topic, then Receive round-trips.
\* A payload Receive returns is exactly the bytes of a Send on the subscription's
\* topic that was made after the Subscribe and reached the broker; a
\* subscription holds, oldest first, exactly such Sends not yet received, so the
\* next Receive returns the oldest of them and a Send made before the Subscribe
\* is never received.
C8_SubscribeSendReceive ==
    /\ LET s == recvResult.sub
           k == recvResult.sendNo
       IN  recvResult.err = "nil" =>
              /\ s # NilSub
              /\ k \in Due(s)
              /\ k <= subs[s].last
              /\ recvResult.payload = published[k].payload
    /\ \A s \in 1..Len(subs) :
          subs[s].kind = "sync" =>
              LET q == subs[s].pending
              IN  /\ { q[i].sendNo : i \in 1..Len(q) } = { k \in Due(s) : k > subs[s].last }
                  /\ \A i \in 1..Len(q) : q[i].payload = published[q[i].sendNo].payload
                  /\ \A i, j \in 1..Len(q) : i < j => q[i].sendNo < q[j].sendNo

\* Two Sends on the topic, one before the Subscribe and one after it; the Receive
\* returned the second.
C8_Witness ==
    /\ recvResult.err = "nil"
    /\ Len(published) = 2
    /\ published[1].topic = published[2].topic
    /\ published[1].reached
    /\ published[1].payload # published[2].payload
    /\ subs[recvResult.sub].since = 1
    /\ recvResult.payload = published[2].payload

\* C9: Receive on a source that was never subscribed returns an error and no
\* payload without calling NextMsg on a subscription handle.
C9_NotSubscribed ==
    (recvResult.err # "none" /\ recvResult.sub = NilSub) =>
        /\ recvResult.err # "nil"
        /\ recvResult.payload = ""
        /\ ~recvResult.nextMsgOnNil

\* C21: the accesses to the provider's subscription map are serialized: while
\* one task writes the map (Subscribe) no other task reads it (Receive) or
\* writes it (Subscribe).
C21_MapAccessSerialized ==
    \A t, u \in Tasks :
        (t # u /\ tasks[t].pc = "mapWrite") => tasks[u].pc \notin {"mapWrite", "mapRead"}

\* The handle SubscribeSync returned last for a topic, NilSub when none was.
Latest(topic) ==
    LET on == { s \in 1..Len(subs) : subs[s].topic = topic }
    IN  IF on = {} THEN NilSub ELSE CHOOSE s \in on : \A r \in on : r <= s

\* C22: the provider holds for each source name exactly the handle of the
\* latest successful Subscribe for that name (a failed Subscribe changes
\* nothing, a repeated one replaces the handle).  A replaced handle is never
\* read again: the last message Receive took from it was sent before the
\* handle that replaced it was made.  And it stays registered at the broker:
\* every message sent to its topic since then is queued on it.
C22_LatestHandleHeld ==
    /\ \A n \in Nodes : subscription[n.name] = Latest(n.topic)
    /\ \A s, r \in 1..Len(subs) :
          (s < r /\ subs[s].topic = subs[r].topic) =>
              /\ subs[s].last <= subs[r].since
              /\ { k \in Due(s) : k > subs[r].since }
                    \subseteq { subs[s].pending[i].sendNo : i \in 1..Len(subs[s].pending) }

\* Two Subscribes for one name, then a Send: Receive returned the message from
\* the second handle, and the first handle holds it still.
C22_Witness ==
    /\ Len(subs) = 2
    /\ subs[1].topic = subs[2].topic
    /\ recvResult.err = "nil"
    /\ recvResult.sub = 2
    /\ recvResult.sendNo > subs[2].since
    /\ \E i \in 1..Len(subs[1].pending) : subs[1].pending[i].sendNo = recvResult.sendNo

\* C10: the handler is called once for every message that arrives on the
\* listener's subject, in the order of arrival: none is skipped, repeated or
\* reordered.
C10_EveryArrivalHandledInOrder ==
    handled = arrived

\* ChanSubscribe failed: ListenAndServe was called and holds the nil handle.
SubscribeFailed == lpc # "idle" /\ lsub = NilSub

\* C11: when the broker cannot register the listener's subscription,
\* ListenAndServe returns: it does not wait for messages, never calls the
\* handler and makes no call on a subscription handle.
C11_ReturnsOnSubscribeFailure ==
    SubscribeFailed =>
        /\ lpc = "returned"
        /\ handled = <<>>
        /\ subCalls = <<>>

\* C12: ListenAndServe returns only after its message channel was closed; while
\* the channel is open it is in its loop (waiting for a message or running the
\* handler) and has made no call on its handle; and it returns having called
\* Unsubscribe and then Drain, in that order, on the handle ChanSubscribe gave it.
C12_ReturnsOnlyAfterClose ==
    /\ lpc = "returned" =>
          /\ msgChan = "closed"
          /\ subCalls = << [op |-> "Unsubscribe", sub |-> lsub],
                           [op |-> "Drain", sub |-> lsub] >>
    /\ msgChan = "open" => lpc \in {"waiting", "handling"}
    /\ lpc # "returned" => subCalls = <<>>

\* The listener served a message, the channel was closed, and it returned.
C12_Witness ==
    /\ lpc = "returned"
    /\ lsub # NilSub
    /\ handled # <<>>
    /\ Len(subCalls) = 2

\* C13: Send returns nil only when it called Publish on the node's topic and
\* then Flush and both succeeded; when Publish fails it returns that error
\* without calling Flush, when Flush fails it returns that error; and it calls
\* Publish once.
C13_SendPublishesThenFlushes ==
    sendErr # "none" =>
        LET node == published[Len(published)]
            Pub(ok) == [op |-> "Publish", topic |-> node.topic, ok |-> ok]
            Flush(ok) == [op |-> "Flush", topic |-> "", ok |-> ok]
        IN  /\ sendErr = "nil" <=> connCalls = << Pub(TRUE), Flush(TRUE) >>
            /\ sendErr = "PublishError" <=> connCalls = << Pub(FALSE) >>
            /\ sendErr = "FlushError" <=> connCalls = << Pub(TRUE), Flush(FALSE) >>
            /\ Cardinality({ i \in 1..Len(connCalls) : connCalls[i].op = "Publish" }) = 1
            /\ sendErr = "nil" => node.reached

\* A Send whose Publish succeeded and whose Flush failed returned the error of
\* the flush, the message having got to the broker all the same.
C13_Witness ==
    /\ sendErr = "FlushError"
    /\ Len(connCalls) = 2
    /\ published[Len(published)].reached

(***************************************************************************)
(* Webhook gateway: listenerHandler, one task per inbound request.         *)
(***************************************************************************)
MaxRequests == 2     \* inbound requests

Requests == 1..MaxRequests

\* name of the destination to send github webhook events
WEBHOOKDESTINATION == "github"

Nil == [name |-> "<nil>"]

\* The event definitions main loads before the listener starts: the "github"
\* destination on a defined provider, on an undefined one, or not defined.
EventDefinitions ==
    { [destinations |-> {[name |-> "github", topic |-> "t1", providerRef |-> "nats"]},
       providers    |-> {[name |-> "nats"]}],
      [destinations |-> {[name |-> "github", topic |-> "t1", providerRef |-> "other"]},
       providers    |-> {[name |-> "nats"]}],
      [destinations |-> {[name |-> "audit", topic |-> "t2", providerRef |-> "nats"]},
       providers    |-> {[name |-> "nats"]}] }

\* eventProviders.GetEventDestination(name): the destination of that name, or nil.
GetEventDestination(name) ==
    IF \E d \in eventProviders.destinations : d.name = name
    THEN CHOOSE d \in eventProviders.destinations : d.name = name
    ELSE Nil

\* eventProviders.GetMessageProvider(name): the provider of that name, or nil.
GetMessageProvider(name) ==
    IF \E m \in eventProviders.providers : m.name = name
    THEN CHOOSE m \in eventProviders.providers : m.name = name
    ELSE Nil

\* What a request carries.  A body is JSON text of one of these kinds; value
\* tells two objects apart.
Headers == {"push", "pull_request"}
Bodies ==
    { [kind |-> "object", value |-> "x"],
      [kind |-> "object", value |-> "y"],
      [kind |-> "null", value |-> ""],
      [kind |-> "array", value |-> "x"],
      [kind |-> "malformed", value |-> "{"] }

\* json.Unmarshal(bytes, &bodyMap) with bodyMap a map[string]interface{}: a JSON
\* object fills the map, null leaves it nil, every other text is an error.
Unmarshal(body) ==
    IF body.kind = "object" THEN [ok |-> TRUE, bodyMap |-> <<"map", body.value>>]
    ELSE IF body.kind = "null" THEN [ok |-> TRUE, bodyMap |-> <<"nil">>]
    ELSE [ok |-> FALSE, bodyMap |-> <<"nil">>]

\* Mutant: the envelope is marshalled without the body.
MarshalWithoutBody(header, bodyMap) ==
    [ok |-> TRUE, bytes |-> <<"{", "header", header, "body", <<"nil">>, "}">>]

\* json.Marshal(message) of the map holding HEADER and BODY.  It cannot fail on
\* a header map and a map that json.Unmarshal produced.
Marshal(header, bodyMap) ==
    [ok |-> TRUE, bytes |-> <<"{", "header", header, "body", bodyMap, "}">>]

StatusUnset    == "unset"
StatusAccepted == "202 Accepted"
StatusOK       == "200 OK"

IdleRequest ==
    [pc |-> "idle", header |-> "", body |-> [kind |-> "", value |-> ""],
     bytes |-> <<>>, status |-> StatusUnset, response |-> "none"]

\* A handler that returns: net/http answers with the status the handler wrote,
\* and with 200 OK when it wrote none.
Returned(req) ==
    [req EXCEPT !.pc = "done",
                !.response = IF req.status = StatusUnset THEN StatusOK ELSE req.status]

\* Mutant: the failure of Send is only logged and the handler goes on to write
\* the accepted status.
AfterSendAlwaysAccepted(req, err) ==
    Returned([req EXCEPT !.status = StatusAccepted])

\* The handler after provider.Send returned err: a failure is logged and the
\* handler returns; otherwise it writes http.StatusAccepted.
AfterSend(req, err) ==
    IF err # "nil" THEN Returned(req)
    ELSE Returned([req EXCEPT !.status = StatusAccepted])

\* Mutant: no check of the event destination: the handler goes on to Send.
BeforeSendNoChecks(req) ==
    LET u == Unmarshal(req.body)
        m == Marshal(req.header, u.bodyMap)
    IN  IF ~u.ok THEN Returned(req)
        ELSE [req EXCEPT !.pc = "send", !.bytes = m.bytes]

\* listenerHandler from its start to the call of provider.Send: the body is
\* read and unmarshalled, the envelope built and marshalled, the destination
\* and its provider looked up.  Each failure is logged and the handler returns.
BeforeSend(req) ==
    LET u        == Unmarshal(req.body)
        m        == Marshal(req.header, u.bodyMap)
        destNode == GetEventDestination(WEBHOOKDESTINATION)
    IN  IF ~u.ok THEN Returned(req)
        ELSE IF ~m.ok THEN Returned(req)
        ELSE IF destNode = Nil THEN Returned(req)
        ELSE IF GetMessageProvider(destNode.providerRef) = Nil THEN Returned(req)
        ELSE [req EXCEPT !.pc = "send", !.bytes = m.bytes]

\* A request arrives and its handler runs up to provider.Send.
HandlerBegins ==
    \E r \in Requests, header \in Headers, body \in Bodies :
        /\ reqs[r].pc = "idle"
        /\ reqs' = [reqs EXCEPT ![r] = BeforeSend([@ EXCEPT !.header = header,
                                                           !.body = body])]
        /\ UNCHANGED <<eventProviders, sentLog>>
        /\ UNCHANGED <<credVars, natsVars, nameVars, repoVars, taskVars>>

\* provider.Send(destNode, bytes, nil) returns, and the handler runs to its end.
HandlerSends ==
    \E r \in Requests, err \in {"nil", "TransportError"} :
        /\ reqs[r].pc = "send"
        /\ sentLog' = Append(sentLog,
                             [req |-> r,
                              topic |-> GetEventDestination(WEBHOOKDESTINATION).topic,
                              bytes |-> reqs[r].bytes, err |-> err])
        /\ reqs' = [reqs EXCEPT ![r] = AfterSend(@, err)]
        /\ UNCHANGED eventProviders
        /\ UNCHANGED <<credVars, natsVars, nameVars, repoVars, taskVars>>

GwNext ==
    \/ HandlerBegins
    \/ HandlerSends

(***************************************************************************)
(* Properties of the webhook gateway.                                      *)
(***************************************************************************)
\* The Send calls the handler of request r made.
SendsOf(r) == { i \in 1..Len(sentLog) : sentLog[i].req = r }

\* The body of request r is valid JSON.
ValidJSON(r) == reqs[r].body.kind \in {"object", "null", "array"}

\* C1 (as stated): a request with a valid JSON body is answered 202 Accepted
\* whether its Send succeeded or failed.
C1_AlwaysAccepted ==
    \A r \in Requests :
        (reqs[r].pc = "done" /\ ValidJSON(r) /\ SendsOf(r) # {}) =>
            reqs[r].response = StatusAccepted

\* C1 (amended): a request is answered 202 Accepted exactly when its Send was
\* called and succeeded; when the Send fails the error is logged, no status is
\* written and the caller sees the implicit 200 OK, so the caller is never told
\* of the failure by an error status.
C1_AcceptedIffSent ==
    \A r \in Requests :
        reqs[r].pc = "done" =>
            /\ reqs[r].response = StatusAccepted
                  <=> \E i \in SendsOf(r) : sentLog[i].err = "nil"
            /\ reqs[r].response \in {StatusAccepted, StatusOK}

C1_Witness ==
    \E r \in Requests :
        /\ reqs[r].pc = "done"
        /\ reqs[r].body.kind = "object"
        /\ \E i \in SendsOf(r) : sentLog[i].err = "TransportError"
        /\ reqs[r].response = StatusOK

\* C2 (as stated): every request handled causes exactly one Send call.
C2_ExactlyOneSend ==
    \A r \in Requests :
        reqs[r].pc = "done" => Cardinality(SendsOf(r)) = 1

\* C2 (amended): a request causes at most one Send call, and a failed Send is
\* not retried; it causes exactly one when its body is a JSON object or null,
\* the "github" destination is defined and so is the provider it names, and none
\* otherwise.
C2_AtMostOneSend ==
    \A r \in Requests :
        /\ Cardinality(SendsOf(r)) <= 1
        /\ reqs[r].pc = "done" =>
              ( Cardinality(SendsOf(r)) = 1
                  <=> /\ reqs[r].body.kind \in {"object", "null"}
                      /\ \E d \in eventProviders.destinations :
                            /\ d.name = "github"
                            /\ \E m \in eventProviders.providers : m.name = d.providerRef )

C2_Witness ==
    /\ \A r \in Requests : reqs[r].pc = "done"
    /\ \E r \in Requests :
          /\ Cardinality(SendsOf(r)) = 1
          /\ \E i \in SendsOf(r) : sentLog[i].err = "TransportError"
    /\ \E r \in Requests :
          /\ Cardinality(SendsOf(r)) = 0
          /\ reqs[r].body.kind = "malformed"

(***************************************************************************)
(* Name conversions: ToDomainName, ToLabelName, ToLabel.                   *)
(***************************************************************************)
maxLabelLength == 63     \* max length of a label in Kubernetes
maxNameLength  == 253    \* max length of a name in Kubernetes

lowerLetters ==
    <<"a","b","c","d","e","f","g","h","i","j","k","l","m",
      "n","o","p","q","r","s","t","u","v","w","x","y","z">>
upperLetters ==
    <<"A","B","C","D","E","F","G","H","I","J","K","L","M",
      "N","O","P","Q","R","S","T","U","V","W","X","Y","Z">>
decimalDigits == <<"0","1","2","3","4","5","6","7","8","9">>

\* ch >= 'a' && ch <= 'z',  ch >= 'A' && ch <= 'Z',  ch >= '0' && ch <= '9'
IsLower(ch) == \E i \in 1..Len(lowerLetters) : lowerLetters[i] = ch
IsUpper(ch) == \E i \in 1..Len(upperLetters) : upperLetters[i] = ch
IsDigit(ch) == \E i \in 1..Len(decimalDigits) : decimalDigits[i] = ch

\* strings.ToLower.
ToLower(str) ==
    [i \in 1..Len(str) |->
        IF IsUpper(str[i])
        THEN lowerLetters[CHOOSE k \in 1..Len(upperLetters) : upperLetters[k] = str[i]]
        ELSE str[i]]

\* strings.Index: the 0-based position of the first instance of substr, or -1.
Index(str, substr) ==
    LET At(i) == SubSeq(str, i + 1, i + Len(substr)) = substr
        hits  == { i \in 0..(Len(str) - Len(substr)) : At(i) }
    IN  IF hits = {} THEN -1
        ELSE CHOOSE i \in hits : \A j \in hits : i <= j

\* strings.ReplaceAll(str, "..", "."): the non-overlapping instances of ".."
\* are taken from the left, so in a run of dots the first and second make a
\* pair, the third and fourth the next one, and the second dot of every pair
\* is dropped.
ReplaceAllDotDot(str) ==
    LET RunStart(i) ==
            LET others == { j \in 1..i : str[j] # "." }
            IN  IF others = {} THEN 1
                ELSE 1 + CHOOSE j \in others : \A k \in others : k <= j
        SecondOfPair(i) == str[i] = "." /\ (i - RunStart(i)) % 2 = 1
        marked == [i \in 1..Len(str) |-> <<str[i], SecondOfPair(i)>>]
        kept   == SelectSeq(marked, LAMBDA m : ~m[2])
    IN  [i \in 1..Len(kept) |-> kept[i][1]]

\* Mutant: one pass of the replacement instead of the loop.
CollapseDotsOnePass(retStr) ==
    IF Index(retStr, <<".", ".">>) > 0 THEN ReplaceAllDotDot(retStr) ELSE retStr

\* for strings.Index(retStr, "..") > 0 { retStr = strings.ReplaceAll(...) }
RECURSIVE CollapseDots(_)
CollapseDots(retStr) ==
    IF Index(retStr, <<".", ".">>) > 0
    THEN CollapseDots(ReplaceAllDotDot(retStr))
    ELSE retStr

\* Mutant: '-' is no domain name character.
isValidDomainNameCharNoDash(ch) ==
    ch = "." \/ IsLower(ch) \/ IsDigit(ch)

\* @Return true if character is valid for a domain name
isValidDomainNameChar(ch) ==
    ch = "." \/ ch = "-" \/ IsLower(ch) \/ IsDigit(ch)

\* Mutant: '_' is no label character.
isValidLabelCharNoUnderscore(ch) ==
    ch = "." \/ ch = "-" \/ IsLower(ch) \/ IsUpper(ch) \/ IsDigit(ch)

isValidLabelChar(ch) ==
    ch = "." \/ ch = "-" \/ ch = "_" \/ IsLower(ch) \/ IsUpper(ch) \/ IsDigit(ch)

\* Mutant: "0" is appended whatever the length.
EndWithZeroAppended(retStr, maxLength) == retStr \o <<"0">>

\* The last character is not alphanumeric: "0" is appended when there is room,
\* else retStr[0:strLen-2] + "0".
EndWithZero(retStr, maxLength) ==
    IF Len(retStr) < maxLength - 1
    THEN retStr \o <<"0">>
    ELSE SubSeq(retStr, 1, Len(retStr) - 2) \o <<"0">>

\* retStr[0:maxLength] when retStr is longer.
Truncate(retStr, maxLength) ==
    IF Len(retStr) > maxLength THEN SubSeq(retStr, 1, maxLength) ELSE retStr

\* Convert a name to domain name format.
ToDomainName(name) ==
    LET chars == ToLower(name)
        first == IF Len(chars) = 0 THEN <<>>
                 ELSE IF IsLower(chars[1]) \/ IsDigit(chars[1]) THEN <<chars[1]>>
                 ELSE <<"0", IF isValidDomainNameChar(chars[1]) THEN chars[1] ELSE ".">>
        rest  == [i \in 1..(Len(chars) - 1) |->
                    IF isValidDomainNameChar(chars[i + 1]) THEN chars[i + 1] ELSE "."]
        retStr == Truncate(CollapseDots(first \o rest), maxNameLength)
    IN  IF Len(retStr) = 0 THEN retStr
        ELSE IF IsLower(retStr[Len(retStr)]) \/ IsDigit(retStr[Len(retStr)]) THEN retStr
        ELSE EndWithZero(retStr, maxNameLength)

\* Convert the name part of a label.
ToLabelName(name) ==
    LET chars == name
        IsAlnum(ch) == IsLower(ch) \/ IsUpper(ch) \/ IsDigit(ch)
        first == IF Len(chars) = 0 THEN <<>>
                 ELSE IF IsAlnum(chars[1]) THEN <<chars[1]>>
                 ELSE <<"0", IF isValidLabelChar(chars[1]) THEN chars[1] ELSE ".">>
        rest  == [i \in 1..(Len(chars) - 1) |->
                    IF isValidLabelChar(chars[i + 1]) THEN chars[i + 1] ELSE "."]
        retStr == Truncate(first \o rest, maxLabelLength)
    IN  IF Len(retStr) = 0 THEN retStr
        ELSE IF IsAlnum(retStr[Len(retStr)]) THEN retStr
        ELSE EndWithZero(retStr, maxLabelLength)

\* ToLabel: the input is split at its first "/" into a prefix and a label, which
\* are converted and joined again.  ret starts empty and is assigned in every
\* branch but the one where both halves are empty: there "nolabel" is assigned
\* to newLabel, which is not read again.
ToLabel(input) ==
    LET slashIndex == Index(input, <<"/">>)
        prefix == IF slashIndex < 0 THEN <<>> ELSE SubSeq(input, 1, slashIndex)
        label  == IF slashIndex < 0 THEN input
                  ELSE IF slashIndex = Len(input) - 1 THEN <<>>
                  ELSE SubSeq(input, slashIndex + 2, Len(input))
        newPrefix == ToDomainName(prefix)
        newLabel  == ToLabelName(label)
    IN  IF newPrefix = <<>>
        THEN IF newLabel = <<>> THEN <<>> ELSE newLabel
        ELSE IF newLabel = <<>> THEN newPrefix
        ELSE newPrefix \o <<"/">> \o newLabel

\* ---- the inputs ----
MaxShortLen == 3     \* length of the short inputs
MaxTailLen  == 2     \* length of what follows the padding of a long input

ShortChars == {"a", "B", "0", ".", "-", "_", "/", "!"}
TailChars  == {"a", ".", "-", "!"}

SeqsUpTo(chars, n) == UNION { [1..k -> chars] : k \in 0..n }

Padding(n) == [i \in 1..n |-> "a"]

\* Lengths around the two limits.
PaddingLengths ==
    (maxLabelLength - 2)..(maxLabelLength + 1) \cup (maxNameLength - 2)..(maxNameLength + 1)

ExampleNames ==
    { <<"-", "a", "b", "c">>, <<"_", "a", "b", "c", "_">>, <<"a", ".", ".", ".", ".", "b">> }

Names ==
    SeqsUpTo(ShortChars, MaxShortLen)
        \cup { Padding(n) \o t : n \in PaddingLengths, t \in SeqsUpTo(TailChars, MaxTailLen) }
        \cup ExampleNames

NoConversion == [fn |-> "none", input |-> <<>>, output |-> <<>>, again |-> <<>>]

\* A call of one of the three functions; again is the function applied to its
\* own output.  The functions keep no state, so a behaviour makes one call.
CallToDomainName ==
    \E name \in Names :
        /\ conversion.fn = "none"
        /\ conversion' = [fn |-> "ToDomainName", input |-> name,
                          output |-> ToDomainName(name),
                          again |-> ToDomainName(ToDomainName(name))]
        /\ UNCHANGED <<credVars, natsVars, gwVars, repoVars, taskVars>>

CallToLabelName ==
    \E name \in Names :
        /\ conversion.fn = "none"
        /\ conversion' = [fn |-> "ToLabelName", input |-> name,
                          output |-> ToLabelName(name),
                          again |-> ToLabelName(ToLabelName(name))]
        /\ UNCHANGED <<credVars, natsVars, gwVars, repoVars, taskVars>>

CallToLabel ==
    \E input \in Names :
        /\ conversion.fn = "none"
        /\ conversion' = [fn |-> "ToLabel", input |-> input,
                          output |-> ToLabel(input),
                          again |-> ToLabel(ToLabel(input))]
        /\ UNCHANGED <<credVars, natsVars, gwVars, repoVars, taskVars>>

NamesNext ==
    \/ CallToDomainName
    \/ CallToLabelName
    \/ CallToLabel

(***************************************************************************)
(* Properties of the name conversions.                                     *)
(***************************************************************************)
\* C14: ToDomainName is idempotent: applied to its own output it returns that
\* output, for every input, those converted at the length limit and those
\* starting or ending with a non-alphanumeric character included.
C14_ToDomainNameIdempotent ==
    conversion.fn = "ToDomainName" => conversion.again = conversion.output

\* An input of the maximal length ending in '.': the last two characters are
\* overwritten by "0", and the conversion of the output changes nothing.
C14_Witness ==
    /\ conversion.fn = "ToDomainName"
    /\ Len(conversion.input) = maxNameLength
    /\ conversion.input[maxNameLength] = "."
    /\ Len(conversion.output) = maxNameLength - 1
    /\ conversion.again = conversion.output

\* C15: for a non-empty input the outputs of ToDomainName and ToLabelName begin
\* and end with an alphanumeric character of their alphabet ([a-z0-9], and
\* [a-zA-Z0-9]) and are no longer than 253 and 63 characters.
C15_AlphanumericEndsWithinLength ==
    LET out == conversion.output
        DomainAlnum(ch) == IsLower(ch) \/ IsDigit(ch)
        LabelAlnum(ch)  == IsLower(ch) \/ IsUpper(ch) \/ IsDigit(ch)
    IN  /\ (conversion.fn = "ToDomainName" /\ conversion.input # <<>>) =>
              /\ out # <<>>
              /\ DomainAlnum(out[1]) /\ DomainAlnum(out[Len(out)])
              /\ Len(out) <= 253
        /\ (conversion.fn = "ToLabelName" /\ conversion.input # <<>>) =>
              /\ out # <<>>
              /\ LabelAlnum(out[1]) /\ LabelAlnum(out[Len(out)])
              /\ Len(out) <= 63

\* A label input longer than the limit whose 63rd character is '-': it is cut
\* to 63 characters and the last two are overwritten by "0".
C15_Witness ==
    /\ conversion.fn = "ToLabelName"
    /\ Len(conversion.input) > maxLabelLength
    /\ conversion.input[maxLabelLength] = "-"
    /\ Len(conversion.output) = maxLabelLength - 1
    /\ conversion.output[maxLabelLength - 1] = "0"

\* C16 (as stated): ToDomainName("-abc") returns "0.abc".
C16_LeadingDashBecomesDot ==
    (conversion.fn = "ToDomainName" /\ conversion.input = <<"-", "a", "b", "c">>)
        => conversion.output = <<"0", ".", "a", "b", "c">>

\* C16 (amended): ToDomainName("-abc") returns "0-abc": "0" is put before a
\* first character that is not in [a-z0-9], and the character itself is kept
\* when it is a domain name character, which '-' is; only a character outside
\* the domain name alphabet is replaced by '.'.
C16_LeadingDashKept ==
    /\ (conversion.fn = "ToDomainName" /\ conversion.input = <<"-", "a", "b", "c">>)
          => conversion.output = <<"0", "-", "a", "b", "c">>
    /\ (conversion.fn = "ToDomainName" /\ conversion.input = <<"!", "a">>)
          => conversion.output = <<"0", ".", "a">>

C16_Witness ==
    /\ conversion.fn = "ToDomainName"
    /\ conversion.input = <<"-", "a", "b", "c">>
    /\ conversion.output[2] = "-"

\* C17 (as stated): ToLabelName("_abc_") returns "_abc_".
C17_UnderscoresUnchanged ==
    (conversion.fn = "ToLabelName" /\ conversion.input = <<"_", "a", "b", "c", "_">>)
        => conversion.output = conversion.input

\* C17 (amended): ToLabelName("_abc_") returns "0_abc_0": the underscores are
\* kept, "0" is put before the first and after the last one, since a label
\* name has to begin and end with a character of [a-zA-Z0-9].
C17_UnderscoresWrapped ==
    (conversion.fn = "ToLabelName" /\ conversion.input = <<"_", "a", "b", "c", "_">>)
        => conversion.output = <<"0", "_", "a", "b", "c", "_", "0">>

C17_Witness ==
    /\ conversion.fn = "ToLabelName"
    /\ conversion.input = <<"_", "a", "b", "c", "_">>
    /\ Len(conversion.output) = 7

\* C18: ToLabel never returns the empty string: when both halves of its input
\* convert to the empty string (the inputs "" and "/") it returns "nolabel".
C18_NoLabelFallback ==
    conversion.fn = "ToLabel" =>
        /\ conversion.output # <<>>
        /\ conversion.input \in { <<>>, <<"/">> }
              => conversion.output = <<"n", "o", "l", "a", "b", "e", "l">>

(***************************************************************************)
(* getRepositoryInfo: owner, name, html_url and ref of a webhook body.     *)
(*                                                                         *)
(* A JSON value as json.Unmarshal leaves it in a map[string]interface{}:   *)
(* a string, a map, or something else (here a number); Missing is a key    *)
(* the map does not hold.                                                  *)
(***************************************************************************)
Missing     == [kind |-> "missing"]
Number      == [kind |-> "number"]
String(str) == [kind |-> "string", str |-> str]
Map(fields) == [kind |-> "map", fields |-> fields]

\* value, ok := m[key]  and  value.(string), value.(map[string]interface{})
Has(value)      == value.kind # "missing"
IsString(value) == value.kind = "string"
IsMap(value)    == value.kind = "map"

\* The values the fields of a webhook body may hold.
AfterValues == << String("sha-after"), Missing, Number >>

PullRequestValues ==
    << Map([head |-> Map([sha |-> String("sha-head")])]),
       Missing,
       Number,
       Map([head |-> Missing]),
       Map([head |-> Number]),
       Map([head |-> Map([sha |-> Missing])]),
       Map([head |-> Map([sha |-> Number])]) >>

Repository(name, owner, htmlURL) ==
    Map([name |-> name, owner |-> owner, html_url |-> htmlURL])

RepositoryValues ==
    << Repository(String("repo"), Map([login |-> String("org")]), String("url")),
       Missing,
       Number,
       Repository(Missing, Map([login |-> String("org")]), String("url")),
       Repository(String("repo"), Map([login |-> Number]), String("url")),
       Repository(String("repo"), Number, String("url")),
       Repository(String("repo"), Map([login |-> String("org")]), Missing) >>

\* The bodies, numbered: every combination of the values above.
BodyIds == 0..(Len(AfterValues) * Len(PullRequestValues) * Len(RepositoryValues) - 1)

BodyAt(i) ==
    [after        |-> AfterValues[(i % Len(AfterValues)) + 1],
     pull_request |-> PullRequestValues[((i \div Len(AfterValues))
                                            % Len(PullRequestValues)) + 1],
     repository   |-> RepositoryValues[(i \div (Len(AfterValues)
                                            * Len(PullRequestValues))) + 1]]

RepositoryEvents == {"push", "pull_request", "issues", ""}

\* return "", "", "", "", fmt.Errorf(...)
RepoFailure(e) == [owner |-> "", name |-> "", htmlURL |-> "", ref |-> "", err |-> e]

\* Mutant: the ref of every event is taken from 'after' when the body has one.
RefOfAfterFirst(body, repositoryEvent) ==
    IF IsString(body.after) THEN [ref |-> body.after.str, err |-> "nil"]
    ELSE [ref |-> "", err |-> "nil"]

\* The first part of getRepositoryInfo: ref by the type of the event.
RefOf(body, repositoryEvent) ==
    IF repositoryEvent = "push"
    THEN IF ~Has(body.after) THEN [ref |-> "", err |-> "no after"]
         ELSE IF ~IsString(body.after) THEN [ref |-> "", err |-> "after not a string"]
         ELSE [ref |-> body.after.str, err |-> "nil"]
    ELSE IF repositoryEvent = "pull_request"
    THEN LET prObj == body.pull_request
         IN  IF ~Has(prObj) THEN [ref |-> "", err |-> "no pull_request"]
             ELSE IF ~IsMap(prObj) THEN [ref |-> "", err |-> "pull_request not a map"]
             ELSE IF ~Has(prObj.fields.head) THEN [ref |-> "", err |-> "no head"]
             ELSE IF ~IsMap(prObj.fields.head) THEN [ref |-> "", err |-> "head not a map"]
             ELSE IF ~Has(prObj.fields.head.fields.sha) THEN [ref |-> "", err |-> "no sha"]
             ELSE IF ~IsString(prObj.fields.head.fields.sha)
             THEN [ref |-> "", err |-> "sha not a string"]
             ELSE [ref |-> prObj.fields.head.fields.sha.str, err |-> "nil"]
    ELSE [ref |-> "", err |-> "nil"]

\* Get the repository's information from the github message body.
getRepositoryInfo(body, repositoryEvent) ==
    LET r == RefOf(body, repositoryEvent)
        repositoryObj == body.repository
    IN  IF r.err # "nil" THEN RepoFailure(r.err)
        ELSE IF ~Has(repositoryObj) THEN RepoFailure("no repository")
        ELSE IF ~IsMap(repositoryObj) THEN RepoFailure("repository not a map")
        ELSE LET repository == repositoryObj.fields
             IN  IF ~Has(repository.name) THEN RepoFailure("no name")
                 ELSE IF ~IsString(repository.name) THEN RepoFailure("name not a string")
                 ELSE IF ~Has(repository.owner) THEN RepoFailure("no owner")
                 ELSE IF ~IsMap(repository.owner) THEN RepoFailure("owner not a map")
                 ELSE IF ~Has(repository.owner.fields.login) THEN RepoFailure("no login")
                 ELSE IF ~IsString(repository.owner.fields.login)
                 THEN RepoFailure("login not a string")
                 ELSE IF ~Has(repository.html_url) THEN RepoFailure("no html_url")
                 ELSE IF ~IsString(repository.html_url)
                 THEN RepoFailure("html_url not a string")
                 ELSE [owner |-> repository.owner.fields.login.str,
                       name |-> repository.name.str,
                       htmlURL |-> repository.html_url.str,
                       ref |-> r.ref, err |-> "nil"]

NoRepoInfo == [event |-> "none", body |-> 0] @@ RepoFailure("none")

\* A call of getRepositoryInfo on body number b.
CallGetRepositoryInfo ==
    \E b \in BodyIds, repositoryEvent \in RepositoryEvents :
        /\ repoInfo' = [event |-> repositoryEvent, body |-> b]
                          @@ getRepositoryInfo(BodyAt(b), repositoryEvent)
        /\ UNCHANGED <<credVars, natsVars, gwVars, nameVars, taskVars>>

RepoNext ==
    \/ CallGetRepositoryInfo

(***************************************************************************)
(* Properties of getRepositoryInfo.                                        *)
(***************************************************************************)
\* The repository object of the body has a string name, a string html_url and
\* an owner with a string login.
WellFormedRepository(body) ==
    /\ body.repository.kind = "map"
    /\ LET rp == body.repository.fields
       IN  /\ rp.name.kind = "string"
           /\ rp.html_url.kind = "string"
           /\ rp.owner.kind = "map"
           /\ rp.owner.fields.login.kind = "string"

\* C19: the ref is the string at 'after' for a "push" event and the string at
\* pull_request.head.sha for a "pull_request" event; for every other event type
\* the ref is empty and the call succeeds whenever the body has a well-formed
\* repository object, whatever 'after' and 'pull_request' hold.
C19_RefByEventType ==
    repoInfo.event # "none" =>
        LET body == BodyAt(repoInfo.body)
        IN  /\ (repoInfo.event = "push" /\ repoInfo.err = "nil") =>
                   /\ body.after.kind = "string"
                   /\ repoInfo.ref = body.after.str
            /\ (repoInfo.event = "pull_request" /\ repoInfo.err = "nil") =>
                   /\ body.pull_request.kind = "map"
                   /\ repoInfo.ref = body.pull_request.fields.head.fields.sha.str
            /\ repoInfo.event \notin {"push", "pull_request"} =>
                   /\ repoInfo.ref = ""
                   /\ WellFormedRepository(body) => repoInfo.err = "nil"
                   /\ repoInfo.err = "nil" => WellFormedRepository(body)

\* An "issues" event whose body has both 'after' and a pull_request with a head
\* sha: the call succeeded with an empty ref.
C19_Witness ==
    /\ repoInfo.event = "issues"
    /\ repoInfo.err = "nil"
    /\ repoInfo.ref = ""
    /\ repoInfo.owner = "org"
    /\ BodyAt(repoInfo.body).after.kind = "string"
    /\ BodyAt(repoInfo.body).pull_request.kind = "map"

\* The "github" destination is defined and names a defined provider.
Routable ==
    \E d \in eventProviders.destinations :
        /\ d.name = "github"
        /\ \E m \in eventProviders.providers : m.name = d.providerRef

\* The envelope of request r: its own header and its own body.
OwnEnvelope(r) ==
    <<"{", "header", reqs[r].header,
      "body", IF reqs[r].body.kind = "object" THEN <<"map", reqs[r].body.value>>
              ELSE <<"nil">>,
      "}">>

\* Every Send of request r carried r's own envelope.
SendsOwnEnvelope(r) ==
    \A i \in SendsOf(r) : sentLog[i].bytes = OwnEnvelope(r)

\* C20 (as stated): a request whose body is not valid JSON, or for which the
\* "github" destination or its provider is not defined, causes no Send and no
\* 202; every other request causes exactly one Send, with its own envelope.
C20_NoSendOnlyForInvalidJSON ==
    \A r \in Requests :
        reqs[r].pc = "done" =>
            IF ~ValidJSON(r) \/ ~Routable
            THEN SendsOf(r) = {} /\ reqs[r].response # StatusAccepted
            ELSE Cardinality(SendsOf(r)) = 1 /\ SendsOwnEnvelope(r)

\* C20 (amended): a request whose body does not unmarshal into a map (it is
\* malformed, or valid JSON that is neither an object nor null), or for which
\* the "github" destination or its provider is not defined, causes no Send and
\* no 202; every other request causes exactly one Send, and the envelope of a
\* Send is built from the header and body of the request that made it, however
\* the requests interleave.
C20_NoSendUnlessMapAndRoutable ==
    \A r \in Requests :
        /\ SendsOwnEnvelope(r)
        /\ reqs[r].pc = "done" =>
              IF reqs[r].body.kind \notin {"object", "null"} \/ ~Routable
              THEN SendsOf(r) = {} /\ reqs[r].response # StatusAccepted
              ELSE Cardinality(SendsOf(r)) = 1

\* Two requests with different headers and bodies, both handled, the second
\* one's Send made before the first one's.
C20_Witness ==
    /\ Len(sentLog) = 2
    /\ sentLog[1].req = 2 /\ sentLog[2].req = 1
    /\ reqs[1].pc = "done" /\ reqs[2].pc = "done"
    /\ reqs[1].header # reqs[2].header
    /\ reqs[1].body.kind = "object" /\ reqs[2].body.kind = "object"
    /\ reqs[1].body.value # reqs[2].body.value
    /\ sentLog[1].bytes # sentLog[2].bytes

(***************************************************************************)
(* Specifications.  Each one runs one component from the state after start *)
(* (no secret listed yet, a connected provider without subscriptions, no   *)
(* request in flight) with the event definitions drawn from defs.          *)
(***************************************************************************)
NoEventDefinitions == { [destinations |-> {}, providers |-> {}] }

Init(defs) ==
    /\ store = <<>>
    /\ result = NoResult
    /\ queryURL = <<>>
    /\ fresh = FALSE
    /\ answerChanged = FALSE
    /\ subs = <<>>
    /\ subscription = [n \in NodeNames |-> NilSub]
    /\ published = <<>>
    /\ sendErr = "none"
    /\ connCalls = <<>>
    /\ recvResult = NoRecv
    /\ lpc = "idle"
    /\ lnode = "none"
    /\ lsub = NilSub
    /\ lmsg = ""
    /\ msgChan = "none"
    /\ subCalls = <<>>
    /\ handled = <<>>
    /\ arrived = <<>>
    /\ eventProviders \in defs
    /\ reqs = [r \in Requests |-> IdleRequest]
    /\ sentLog = <<>>
    /\ conversion = NoConversion
    /\ repoInfo = NoRepoInfo
    /\ tasks = [t \in Tasks |-> IdleTask]
    /\ fatal = FALSE

SpecCred == Init(NoEventDefinitions) /\ [][CredNext]_vars

SpecNats == Init(NoEventDefinitions) /\ [][NatsNext]_vars

SpecListen == Init(NoEventDefinitions) /\ [][ListenNext]_vars

SpecGateway == Init(EventDefinitions) /\ [][GwNext]_vars

SpecNames == Init(NoEventDefinitions) /\ [][NamesNext]_vars

SpecRepoInfo == Init(NoEventDefinitions) /\ [][RepoNext]_vars

SpecTasks == Init(NoEventDefinitions) /\ [][TaskNext]_vars

====
